---- MODULE Spec2Model ----
(***************************************************************************)
(* Model of cliclack's text input prompt (src/src/input.rs): the builder   *)
(* configuration, Input::interact's setup, and the per-key handler         *)
(* Input::on together with the host's routing of printable characters and  *)
(* Backspace through Input::input.  Strings are sequences of one-character *)
(* strings; Option<T> is a sequence of length 0 (None) or 1 (Some).        *)
(***************************************************************************)
EXTENDS Integers, Sequences, FiniteSets, TLC

VARIABLES
    input,                  \* Input.input: the StringCursor [value, cursor]
    input_required,         \* Input.input_required
    default,                \* Input.default: Option<String>
    placeholder,            \* Input.placeholder: StringCursor
    multiline,              \* Input.multiline: "Disabled" | "Preview" | "Editing"
    validate_on_enter,      \* Input.validate_on_enter: Option<validator>
    validate_interactively, \* Input.validate_interactively: Option<validator>
    autocomplete,           \* Input.autocomplete: Option<Vec<String>>
    autocompletion_index,   \* Input.autocompletion_index: Option<usize>
    autocompletion_query,   \* Input.autocompletion_query: String
    autocomplete_on_enter,  \* Input.autocomplete_on_enter
    T,                      \* the target type of on::<T>: "String" | "char"
    pc,                     \* "built" | "interacting" | "done"
    key,                    \* the last event handed to on()
    state,                  \* the State<T> the last on() returned
    checks,                 \* the validators and parses the last on() invoked, in order
    frame,                  \* what render() returned since the last event, if called
    handler,                \* the callback given to autocompletion_handler, if any
    lookup                  \* the last stand-alone get_filtered_suggestions call

vars == <<input, input_required, default, placeholder, multiline,
          validate_on_enter, validate_interactively, autocomplete,
          autocompletion_index, autocompletion_query, autocomplete_on_enter,
          T, pc, key, state, checks, frame, handler, lookup>>

config == <<input_required, default, validate_on_enter, validate_interactively,
            autocomplete, autocomplete_on_enter, T>>

----------------------------------------------------------------------------
(* Bounds *)

\* Longest buffer a typed character or a newline is inserted into, and
\* longest query looked up on its own.
MaxLen == 2

\* Longest suggestion list handed to Input::autocomplete on its own.
MaxChoices == 2

----------------------------------------------------------------------------
(* Option<T> *)

None == <<>>
Some(x) == <<x>>

----------------------------------------------------------------------------
(* Strings *)

\* The printable characters the key source delivers.
Chars == {"r", "R", " "}

Newline == "\n"

\* char::to_lowercase over the alphabet in use.
LowerChar(c) == IF c = "R" THEN "r" ELSE c

\* str::to_lowercase
to_lowercase(s) == [i \in 1..Len(s) |-> LowerChar(s[i])]

\* str::contains(&str): substring search.
contains(hay, needle) ==
    \E i \in 0..(Len(hay) - Len(needle)) :
        SubSeq(hay, i + 1, i + Len(needle)) = needle

----------------------------------------------------------------------------
(* StringCursor (prompt/cursor.rs) *)

EmptyCursor == [value |-> <<>>, cursor |-> 0]

\* StringCursor::insert: insert at the cursor, advance the cursor by one.
insert(sc, c) ==
    [value  |-> SubSeq(sc.value, 1, sc.cursor) \o <<c>>
                \o SubSeq(sc.value, sc.cursor + 1, Len(sc.value)),
     cursor |-> sc.cursor + 1]

\* StringCursor::delete_left: remove the character before the cursor, if any.
delete_left(sc) ==
    IF sc.cursor = 0 THEN sc
    ELSE [value  |-> SubSeq(sc.value, 1, sc.cursor - 1)
                     \o SubSeq(sc.value, sc.cursor + 1, Len(sc.value)),
          cursor |-> sc.cursor - 1]

\* StringCursor::extend: append at the end, the cursor stays.
extend(sc, s) == [value |-> sc.value \o s, cursor |-> sc.cursor]

\* StringCursor::clear
clear(sc) == EmptyCursor

\* StringCursor::is_empty
is_empty(sc) == Len(sc.value) = 0

\* StringCursor::to_string
to_string(sc) == sc.value

----------------------------------------------------------------------------
(* Configuration values the builder methods are called with *)

\* The suggestion list handed to Input::autocomplete.
Choices == << <<"R">>, <<"r", " ">>, <<" ", "R">>, <<" ">> >>

\* Default values handed to Input::default_input.
Defaults == { <<" ">>, <<"R", " ">> }

\* Placeholder texts handed to Input::placeholder.
Placeholders == { <<"r">> }

\* " (default)"
DefaultSuffix == <<" ", "(", "d", "e", "f", "a", "u", "l", "t", ")">>

\* Validators: a validator rejects every text containing its `bad` character
\* and reports `msg`.
NoSpaces == [bad |-> " ", msg |-> "no spaces"]
NoUpperCase == [bad |-> "R", msg |-> "no upper case"]

\* ValidationCallback: TRUE for Ok(()), FALSE for Err(msg).
validator(v, text) == \A i \in 1..Len(text) : text[i] # v.bad

\* The target types the prompt is instantiated with.
Types == {"String", "char"}

\* str::parse::<T>(): String::from_str never fails and copies the text;
\* char::from_str succeeds on exactly one character.
parse(text) ==
    IF T = "String" THEN [ok |-> TRUE, value |-> text]
    ELSE IF Len(text) = 1 THEN [ok |-> TRUE, value |-> <<text[1]>>]
    ELSE [ok |-> FALSE, value |-> <<>>]

----------------------------------------------------------------------------
(* State<T> and Event *)

Active == [kind |-> "Active", msg |-> "", value |-> <<>>]
Cancel == [kind |-> "Cancel", msg |-> "", value |-> <<>>]
Error(m) == [kind |-> "Error", msg |-> m, value |-> <<>>]
Submit(v) == [kind |-> "Submit", msg |-> "", value |-> v]

\* No render() since the last event.
NoFrame == [state |-> "None", input |-> <<>>, footer |-> "", suggestions |-> <<>>]

\* No get_filtered_suggestions call on its own yet.
NoLookup == [called |-> FALSE, query |-> <<>>, result |-> <<>>]

NoKey == [kind |-> "None", ch |-> ""]
Key(k) == [kind |-> k, ch |-> ""]
KeyChar(c) == [kind |-> "Char", ch |-> c]

----------------------------------------------------------------------------
(* Construction: Input::new followed by any chain of builder calls *)

\* The builder chains explored.  required(false) is paired with no default
\* (with a default the flag is never read), a placeholder with multiline
\* (it only decides interact's initial mode), and autocomplete_on_enter with
\* a suggestion list (without one there is nothing to select).
Init ==
    /\ input = EmptyCursor
    /\ \/ input_required \in BOOLEAN /\ default = None
       \/ input_required = TRUE /\ default \in {Some(d) : d \in Defaults}
    /\ \/ multiline = "Disabled" /\ placeholder = EmptyCursor
       \/ /\ multiline = "Editing"
          /\ placeholder \in {EmptyCursor}
                 \cup {extend(EmptyCursor, p) : p \in Placeholders}
    /\ validate_on_enter \in {None, Some(NoUpperCase)}
    /\ validate_interactively \in {None, Some(NoSpaces)}
    /\ \/ autocomplete = None /\ autocomplete_on_enter = FALSE
       \/ autocomplete = Some(Choices) /\ autocomplete_on_enter \in BOOLEAN
    /\ autocompletion_index = None
    /\ autocompletion_query = <<>>
    /\ T \in Types
    /\ pc = "built"
    /\ key = NoKey
    /\ state = Active
    /\ checks = <<>>
    /\ frame = NoFrame
    /\ handler = None
    /\ lookup = NoLookup

----------------------------------------------------------------------------
(* Input::interact: the setup before the interaction loop *)

interact_placeholder ==
    IF is_empty(placeholder) /\ default # None
    THEN extend(extend(placeholder, default[1]), DefaultSuffix)
    ELSE placeholder

interact_multiline ==
    IF is_empty(placeholder) /\ default # None /\ multiline = "Editing"
    THEN "Preview"
    ELSE multiline

interact ==
    /\ pc = "built"
    /\ placeholder' = interact_placeholder
    /\ multiline' = interact_multiline
    /\ pc' = "interacting"
    /\ UNCHANGED <<input, config, autocompletion_index, autocompletion_query,
                   key, state, checks, frame, handler, lookup>>

----------------------------------------------------------------------------
(* Suggestions *)

\* get_filtered_suggestions comparing the query as typed.
get_filtered_suggestions_query_as_typed(query) ==
    IF autocomplete # None
    THEN IF query = <<>>
         THEN <<>>
         ELSE SelectSeq(autocomplete[1],
                        LAMBDA choice : contains(to_lowercase(choice), query))
    ELSE <<>>

get_filtered_suggestions(query) ==
    IF autocomplete # None
    THEN IF query = <<>>
         THEN <<>>
         ELSE SelectSeq(autocomplete[1],
                        LAMBDA choice :
                            contains(to_lowercase(choice), to_lowercase(query)))
    ELSE <<>>

\* on(): the query the cycling keys filter by.
filter_query(self_input) ==
    IF autocompletion_query = <<>>
    THEN to_string(self_input)
    ELSE autocompletion_query

\* tab_new_index wrapping to the first candidate, as ArrowDown does.
tab_new_index_wraps_to_first(idx, n) ==
    IF idx = None THEN Some(0)
    ELSE IF idx[1] >= n - 1 THEN Some(0) ELSE Some(idx[1] + 1)

\* Key::Tab arm: the next selection index over a list of length n.
tab_new_index(idx, n) ==
    IF idx = None THEN Some(0)
    ELSE IF idx[1] >= n - 1 THEN None ELSE Some(idx[1] + 1)

\* Key::ArrowDown arm
down_new_index(idx, n) ==
    IF idx = None THEN Some(0)
    ELSE IF idx[1] >= n - 1 THEN Some(0) ELSE Some(idx[1] + 1)

\* up_new_index leaving the selection at the first candidate.
up_new_index_stops_at_none(idx, n) ==
    IF idx = None THEN Some(n - 1)
    ELSE IF idx[1] = 0 THEN None ELSE Some(idx[1] - 1)

\* Key::ArrowUp arm
up_new_index(idx, n) ==
    IF idx = None THEN Some(n - 1)
    ELSE IF idx[1] = 0 THEN Some(n - 1) ELSE Some(idx[1] - 1)

----------------------------------------------------------------------------
(* PromptInteraction::input and the host's routing of a key through it *)

\* input() handing out the cursor in every mode.
input_routed_always == TRUE

\* Input::input: TRUE when it returns Some(&mut self.input).
input_routed == multiline # "Preview"

\* The host loop edits the cursor input() hands out before it calls on().
host_route(k) ==
    IF ~input_routed THEN input
    ELSE IF k.kind = "Char" THEN insert(input, k.ch)
    ELSE IF k.kind = "Backspace" THEN delete_left(input)
    ELSE input

----------------------------------------------------------------------------
(* Input::on *)

\* What one call of on() leaves behind and returns.
Outcome(inp, ml, idx, qry, st, ch) ==
    [input |-> inp, multiline |-> ml, index |-> idx, query |-> qry,
     state |-> st, checks |-> ch]

\* The new_index of the arm the key selects.
new_index(k, idx, n) ==
    IF k.kind = "Tab" THEN tab_new_index(idx, n)
    ELSE IF k.kind = "ArrowDown" THEN down_new_index(idx, n)
    ELSE up_new_index(idx, n)

\* pin_query pinning the live buffer on every cycling key.
pin_query_always(query) == query

\* "Store the query when first starting to navigate"
pin_query(query) ==
    IF autocompletion_query = <<>> THEN query ELSE autocompletion_query

\* select_first_on_enter without the check that nothing is selected.
select_first_on_enter_ignores_index(self_input, idx, submit) ==
    LET suggestions == get_filtered_suggestions(to_string(self_input))
    IN  IF submit /\ autocomplete_on_enter /\ suggestions # <<>>
        THEN extend(clear(self_input), suggestions[1])
        ELSE self_input

\* "Autocomplete on enter: select first suggestion if enabled"
select_first_on_enter(self_input, idx, submit) ==
    LET suggestions == get_filtered_suggestions(to_string(self_input))
    IN  IF submit /\ autocomplete_on_enter /\ idx = None /\ suggestions # <<>>
        THEN extend(clear(self_input), suggestions[1])
        ELSE self_input

\* "Multiline: preview -> editing."
preview_to_editing(ml) == IF ml = "Preview" THEN "Editing" ELSE ml

\* substitute_default without the substitution.
substitute_default_skipped(self_input, submit) == self_input

\* Default substitution for an empty submission.
substitute_default(self_input, submit) ==
    IF submit /\ is_empty(self_input) /\ default # None
    THEN extend(self_input, default[1])
    ELSE self_input

\* required_fails with the required flag inverted.
required_fails_flag_inverted(self_input, submit) ==
    submit /\ is_empty(self_input) /\ default = None /\ ~input_required

\* The required-field check: TRUE when it returns the error.
required_fails(self_input, submit) ==
    submit /\ is_empty(self_input) /\ default = None /\ input_required

\* validate_and_parse running the interactive validator on submission only.
validate_and_parse_on_submit_only(text, submit) ==
    LET vi == validate_interactively
        ve == validate_on_enter
        ci == IF vi # None THEN <<"interactive">> ELSE <<>>
        cp == IF vi # None THEN <<"interactive", "interactive_parse">> ELSE <<>>
        ce == IF ve # None THEN cp \o <<"on_enter">> ELSE cp
    IN  IF submit /\ vi # None /\ ~validator(vi[1], text)
        THEN [state |-> Error(vi[1].msg), checks |-> ci]
        ELSE IF submit /\ vi # None /\ ~parse(text).ok
        THEN [state |-> Error("Invalid value format"), checks |-> cp]
        ELSE IF submit
        THEN IF ve # None /\ ~validator(ve[1], text)
             THEN [state |-> Error(ve[1].msg), checks |-> ce]
             ELSE IF parse(text).ok
             THEN [state |-> Submit(parse(text).value), checks |-> ce \o <<"parse">>]
             ELSE [state |-> Error("Invalid value format"),
                   checks |-> ce \o <<"parse">>]
        ELSE [state |-> Active, checks |-> <<>>]

\* validate_and_parse running the on-submit validator ahead of the interactive
\* validator on submission.
validate_and_parse_on_enter_first(text, submit) ==
    LET vi == validate_interactively
        ve == validate_on_enter
        ce == IF ve # None THEN <<"on_enter">> ELSE <<>>
        ci == IF vi # None THEN <<"interactive">> ELSE <<>>
        cp == IF vi # None THEN <<"interactive", "interactive_parse">> ELSE <<>>
        pre == IF submit THEN ce ELSE <<>>
    IN  IF submit /\ ve # None /\ ~validator(ve[1], text)
        THEN [state |-> Error(ve[1].msg), checks |-> ce]
        ELSE IF vi # None /\ ~validator(vi[1], text)
        THEN [state |-> Error(vi[1].msg), checks |-> pre \o ci]
        ELSE IF vi # None /\ ~parse(text).ok
        THEN [state |-> Error("Invalid value format"), checks |-> pre \o cp]
        ELSE IF submit
        THEN IF parse(text).ok
             THEN [state |-> Submit(parse(text).value),
                   checks |-> pre \o cp \o <<"parse">>]
             ELSE [state |-> Error("Invalid value format"),
                   checks |-> pre \o cp \o <<"parse">>]
        ELSE [state |-> Active, checks |-> cp]

\* The interactive validator, the on-submit validator and the parses.
\* Returns the state and the checks invoked, in order.
validate_and_parse(text, submit) ==
    LET vi == validate_interactively
        ve == validate_on_enter
        ci == IF vi # None THEN <<"interactive">> ELSE <<>>
        cp == IF vi # None THEN <<"interactive", "interactive_parse">> ELSE <<>>
        ce == IF ve # None THEN cp \o <<"on_enter">> ELSE cp
    IN  IF vi # None /\ ~validator(vi[1], text)
        THEN [state |-> Error(vi[1].msg), checks |-> ci]
        ELSE IF vi # None /\ ~parse(text).ok
        THEN [state |-> Error("Invalid value format"), checks |-> cp]
        ELSE IF submit
        THEN IF ve # None /\ ~validator(ve[1], text)
             THEN [state |-> Error(ve[1].msg), checks |-> ce]
             ELSE IF parse(text).ok
             THEN [state |-> Submit(parse(text).value), checks |-> ce \o <<"parse">>]
             ELSE [state |-> Error("Invalid value format"),
                   checks |-> ce \o <<"parse">>]
        ELSE [state |-> Active, checks |-> cp]

\* on() after the match on the key: everything from the autocomplete-on-enter
\* step to the final State.
after_match(self_input, idx, qry, submit) ==
    LET completed == select_first_on_enter(self_input, idx, submit)
        ml == preview_to_editing(multiline)
        filled == substitute_default(completed, submit)
        r == validate_and_parse(to_string(filled), submit)
    IN  IF required_fails(completed, submit)
        THEN Outcome(completed, ml, idx, qry, Error("Input required"), <<>>)
        ELSE Outcome(filled, ml, idx, qry, r.state, r.checks)

\* cycle without the early return: the outcome runs through the later steps.
cycle_falls_through(k, self_input) ==
    LET filtered_suggestions == get_filtered_suggestions(filter_query(self_input))
        idx == new_index(k, autocompletion_index, Len(filtered_suggestions))
    IN  IF filtered_suggestions = <<>>
        THEN after_match(self_input, autocompletion_index,
                         autocompletion_query, FALSE)
        ELSE after_match(IF idx # None
                         THEN extend(clear(self_input),
                                     filtered_suggestions[idx[1] + 1])
                         ELSE self_input,
                         idx, pin_query(to_string(self_input)), FALSE)

\* cycle pinning the query before it looks at the list.
cycle_pins_on_empty(k, self_input) ==
    LET filtered_suggestions == get_filtered_suggestions(filter_query(self_input))
        idx == new_index(k, autocompletion_index, Len(filtered_suggestions))
    IN  IF filtered_suggestions = <<>>
        THEN Outcome(self_input, multiline, autocompletion_index,
                     pin_query(to_string(self_input)), Active, <<>>)
        ELSE Outcome(IF idx # None
                     THEN extend(clear(self_input), filtered_suggestions[idx[1] + 1])
                     ELSE self_input,
                     multiline, idx, pin_query(to_string(self_input)), Active, <<>>)

\* cycle putting the pinned query back into the buffer when Tab wraps.
cycle_wrap_restores_query(k, self_input) ==
    LET filtered_suggestions == get_filtered_suggestions(filter_query(self_input))
        idx == new_index(k, autocompletion_index, Len(filtered_suggestions))
    IN  IF filtered_suggestions = <<>>
        THEN Outcome(self_input, multiline, autocompletion_index,
                     autocompletion_query, Active, <<>>)
        ELSE Outcome(IF idx # None
                     THEN extend(clear(self_input), filtered_suggestions[idx[1] + 1])
                     ELSE extend(clear(self_input),
                                 pin_query(to_string(self_input))),
                     multiline, idx, pin_query(to_string(self_input)), Active, <<>>)

\* The Tab / ArrowDown / ArrowUp arms; they differ in new_index only.
cycle(k, self_input) ==
    LET filtered_suggestions == get_filtered_suggestions(filter_query(self_input))
        idx == new_index(k, autocompletion_index, Len(filtered_suggestions))
    IN  IF filtered_suggestions = <<>>
        THEN Outcome(self_input, multiline, autocompletion_index,
                     autocompletion_query, Active, <<>>)
        ELSE Outcome(IF idx # None
                     THEN extend(clear(self_input), filtered_suggestions[idx[1] + 1])
                     ELSE self_input,
                     multiline, idx, pin_query(to_string(self_input)), Active, <<>>)

\* escape_editing without the early return.
escape_editing_falls_through(self_input) ==
    LET r == validate_and_parse(to_string(self_input), FALSE)
    IN  Outcome(self_input, preview_to_editing("Preview"), autocompletion_index,
                autocompletion_query, r.state, r.checks)

\* "Multiline: editing -> preview."
escape_editing(self_input) ==
    Outcome(self_input, "Preview", autocompletion_index, autocompletion_query,
            Cancel, <<>>)

\* The Enter arm requesting submission in every mode.
enter_always_submits(self_input) ==
    after_match(self_input, autocompletion_index, autocompletion_query, TRUE)

\* The Enter arm: a newline in Editing mode, a submit request otherwise.
enter(self_input) ==
    IF multiline = "Editing"
    THEN after_match(insert(self_input, Newline), autocompletion_index,
                     autocompletion_query, FALSE)
    ELSE after_match(self_input, autocompletion_index,
                     autocompletion_query, TRUE)

\* The match on the key, arm by arm in source order.  self_input is
\* self.input as the host left it.
on(k, self_input) ==
    IF k.kind \in {"Tab", "ArrowDown", "ArrowUp"} /\ autocomplete # None
    THEN cycle(k, self_input)
    ELSE IF k.kind = "Escape" /\ multiline = "Editing"
    THEN escape_editing(self_input)
    ELSE IF k.kind = "Enter"
    THEN enter(self_input)
    ELSE IF k.kind = "Char" /\ multiline = "Preview"
    THEN after_match(insert(self_input, k.ch), autocompletion_index,
                     autocompletion_query, FALSE)
    ELSE IF k.kind = "Backspace" /\ multiline = "Preview"
    THEN after_match(delete_left(self_input), autocompletion_index,
                     autocompletion_query, FALSE)
    ELSE IF k.kind \in {"Char", "Backspace"}
    THEN after_match(self_input, None, <<>>, FALSE)
    ELSE after_match(self_input, autocompletion_index, autocompletion_query,
                     FALSE)

----------------------------------------------------------------------------
(* One key event: the host routes the key, calls on(), and stops reading  *)
(* keys once on() returns Submit.                                          *)

KeyEvent(k) ==
    /\ pc = "interacting"
    /\ \E r \in {on(k, host_route(k))} :
        /\ input' = r.input
        /\ multiline' = r.multiline
        /\ autocompletion_index' = r.index
        /\ autocompletion_query' = r.query
        /\ state' = r.state
        /\ checks' = r.checks
        /\ key' = k
        /\ pc' = IF r.state.kind = "Submit" THEN "done" ELSE "interacting"
        /\ frame' = NoFrame
        /\ UNCHANGED <<config, placeholder, handler, lookup>>

PressChar ==
    \E c \in Chars : Len(input.value) < MaxLen /\ KeyEvent(KeyChar(c))

PressBackspace == KeyEvent(Key("Backspace"))

PressEnter ==
    /\ multiline = "Editing" => Len(input.value) < MaxLen
    /\ KeyEvent(Key("Enter"))

PressEscape == KeyEvent(Key("Escape"))

PressTab == KeyEvent(Key("Tab"))

PressArrowDown == KeyEvent(Key("ArrowDown"))

PressArrowUp == KeyEvent(Key("ArrowUp"))

----------------------------------------------------------------------------
(* Input::render *)

\* render_filter_query reading the live buffer even while a query is pinned.
render_filter_query_live == to_string(input)

\* render(): the query the suggestion block is filtered by.
render_filter_query ==
    IF autocompletion_query = <<>> THEN to_string(input)
    ELSE autocompletion_query

\* render(): filtered_suggestions.
render_filtered_suggestions ==
    IF autocomplete # None
    THEN IF render_filter_query = <<>>
         THEN <<>>
         ELSE SelectSeq(autocomplete[1],
                        LAMBDA choice :
                            contains(to_lowercase(choice),
                                     to_lowercase(render_filter_query)))
    ELSE <<>>

\* render(): the suggestion block, one entry per line: the candidate and
\* whether it is drawn as selected.
render_suggestions(st) ==
    IF st.kind # "Active" THEN <<>>
    ELSE IF render_filtered_suggestions = <<>> THEN <<>>
    ELSE [i \in 1..Len(render_filtered_suggestions) |->
            [choice   |-> render_filtered_suggestions[i],
             selected |-> /\ autocompletion_index # None
                          /\ autocompletion_index[1] = i - 1]]

\* render(): the input line, the placeholder when the buffer is empty.
render_input ==
    IF is_empty(input) THEN <<"placeholder", placeholder>>
    ELSE <<"input", input>>

\* render(): the footer.
render_footer(st) ==
    IF /\ st.kind = "Active"
       /\ autocomplete # None
       /\ render_filtered_suggestions # <<>>
    THEN "tab"
    ELSE IF multiline = "Editing" THEN "[Esc](Preview)"
    ELSE IF multiline = "Preview" THEN "[Enter](Submit)"
    ELSE ""

\* render(): prompt + input + footer + suggestions, as the pieces handed to
\* the theme.
render(st) ==
    [state       |-> st.kind,
     input       |-> render_input,
     footer      |-> render_footer(st),
     suggestions |-> render_suggestions(st)]

\* render() with the preview -> editing flip of on().
render_writes_flipping_preview ==
    [input |-> input, multiline |-> preview_to_editing(multiline),
     index |-> autocompletion_index, query |-> autocompletion_query]

\* The fields of self after render(): it takes &mut self and writes none.
render_writes ==
    [input |-> input, multiline |-> multiline,
     index |-> autocompletion_index, query |-> autocompletion_query]

\* The host draws the frame for the state the last on() returned.
Render ==
    /\ pc \in {"interacting", "done"}
    /\ frame' = render(state)
    /\ input' = render_writes.input
    /\ multiline' = render_writes.multiline
    /\ autocompletion_index' = render_writes.index
    /\ autocompletion_query' = render_writes.query
    /\ UNCHANGED <<config, placeholder, pc, key, state, checks, handler, lookup>>

Next ==
    \/ interact
    \/ PressChar
    \/ PressBackspace
    \/ PressEnter
    \/ PressEscape
    \/ PressTab
    \/ PressArrowDown
    \/ PressArrowUp

Spec == Init /\ [][Next]_vars

----------------------------------------------------------------------------
(* The suggestion source on its own: Input::new, then Input::autocomplete   *)
(* or Input::autocompletion_handler, then get_filtered_suggestions.         *)

\* The strings suggestion lists are built from.
ChoicePool == { <<"R">>, <<"r", " ">>, <<" ">>, <<" ", "R">>, <<"r", "R">> }

\* Vec<String> values handed to Input::autocomplete.
ChoiceLists == UNION { [1..n -> ChoicePool] : n \in 0..MaxChoices }

\* Queries get_filtered_suggestions is called with.
Queries == UNION { [1..n -> Chars] : n \in 0..MaxLen }

\* The callbacks handed to Input::autocompletion_handler: "prefix" returns
\* the candidates that start with the query, "echo" the query itself.
Handlers == {"prefix", "echo"}

\* handler(query)
handler_call(h, query) ==
    IF h = "prefix"
    THEN SelectSeq(Choices,
                   LAMBDA choice : /\ Len(query) <= Len(choice)
                                   /\ SubSeq(choice, 1, Len(query)) = query)
    ELSE IF query = <<>> THEN <<>> ELSE <<query>>

\* Input::new
InitSource ==
    /\ input = EmptyCursor
    /\ input_required = TRUE
    /\ default = None
    /\ placeholder = EmptyCursor
    /\ multiline = "Disabled"
    /\ validate_on_enter = None
    /\ validate_interactively = None
    /\ autocomplete = None
    /\ autocompletion_index = None
    /\ autocompletion_query = <<>>
    /\ autocomplete_on_enter = FALSE
    /\ T = "String"
    /\ pc = "new"
    /\ key = NoKey
    /\ state = Active
    /\ checks = <<>>
    /\ frame = NoFrame
    /\ handler = None
    /\ lookup = NoLookup

\* Input::autocomplete
set_autocomplete ==
    /\ pc = "new"
    /\ \E suggestions \in ChoiceLists : autocomplete' = Some(suggestions)
    /\ pc' = "configured"
    /\ UNCHANGED <<input, input_required, default, placeholder, multiline,
                   validate_on_enter, validate_interactively,
                   autocompletion_index, autocompletion_query,
                   autocomplete_on_enter, T, key, state, checks, frame,
                   handler, lookup>>

\* Input::autocompletion_handler
autocompletion_handler ==
    /\ pc = "new"
    /\ \E h \in Handlers :
          /\ autocomplete' = Some(handler_call(h, <<>>))
          /\ handler' = Some(h)
    /\ pc' = "configured"
    /\ UNCHANGED <<input, input_required, default, placeholder, multiline,
                   validate_on_enter, validate_interactively,
                   autocompletion_index, autocompletion_query,
                   autocomplete_on_enter, T, key, state, checks, frame,
                   lookup>>

\* One call of get_filtered_suggestions, once the builder is done.
Lookup ==
    /\ pc \in {"new", "configured", "called"}
    /\ pc' = "called"
    /\ \E query \in Queries :
          lookup' = [called |-> TRUE, query |-> query,
                     result |-> get_filtered_suggestions(query)]
    /\ UNCHANGED <<input, input_required, default, placeholder, multiline,
                   validate_on_enter, validate_interactively, autocomplete,
                   autocompletion_index, autocompletion_query,
                   autocomplete_on_enter, T, key, state, checks, frame,
                   handler>>

NextSource ==
    \/ set_autocomplete
    \/ autocompletion_handler
    \/ Lookup

SpecSource == InitSource /\ [][NextSource]_vars

\* The interaction with the host drawing frames between events.
NextRender == Next \/ Render

\* render() reads the State only for its kind: one target type and no
\* on-submit validator still produce Active, Error, Cancel and Submit.
InitRender ==
    /\ Init
    /\ T = "String"
    /\ validate_on_enter = None

SpecRender == InitRender /\ [][NextRender]_vars

----------------------------------------------------------------------------
(* Properties *)

\* The list the cycling keys walk in the current state.
Candidates == get_filtered_suggestions(filter_query(input))

\* The list for the pinned query.
Pinned == get_filtered_suggestions(autocompletion_query)

CyclingKeys == {"Tab", "ArrowDown", "ArrowUp"}

EditKeys == {"Char", "Backspace"}

\* C1: whenever the selection index is Some(i), i is a valid index into the
\* filtered suggestion list of the pinned query.
C1_IndexValid ==
    autocompletion_index # None =>
        /\ autocompletion_index[1] >= 0
        /\ autocompletion_index[1] < Len(Pinned)

C1_Witness ==
    /\ key.kind = "Tab"
    /\ autocompletion_index = Some(2)
    /\ Len(Pinned) = 3

\* C2: with a suggestion list and a non-empty filtered list of length n, a Tab
\* takes the index None to Some(0), Some(i) to Some(i+1) for i < n-1 and
\* Some(n-1) to None; the list stays the same for the next Tab, and whenever
\* the new index is Some(i) the buffer is the i-th candidate of the list for
\* the pinned query.
C2_TabCycle ==
    [][(/\ pc = "interacting"
        /\ key'.kind = "Tab"
        /\ autocomplete # None
        /\ Candidates # <<>>)
       => LET n == Len(Candidates)
              i == autocompletion_index
          IN  /\ i = None => autocompletion_index' = Some(0)
              /\ (i # None /\ i[1] < n - 1) => autocompletion_index' = Some(i[1] + 1)
              /\ (i # None /\ i[1] = n - 1) => autocompletion_index' = None
              /\ get_filtered_suggestions(autocompletion_query') = Candidates
              /\ autocompletion_index' # None =>
                    to_string(input') = Candidates[autocompletion_index'[1] + 1]
      ]_vars

C2_Witness ==
    /\ key.kind = "Tab"
    /\ autocompletion_index = None
    /\ autocompletion_query # <<>>
    /\ Len(Pinned) = 3
    /\ to_string(input) = Pinned[3]

\* C3: with a suggestion list and a non-empty filtered list of length n, ArrowDown
\* takes None to 0, i to i+1 and n-1 to 0; ArrowUp takes None to n-1, i to i-1
\* and 0 to n-1; neither ever leaves the index None.
C3_ArrowsWrap ==
    [][(/\ pc = "interacting"
        /\ key'.kind \in {"ArrowDown", "ArrowUp"}
        /\ autocomplete # None
        /\ Candidates # <<>>)
       => LET n == Len(Candidates)
              i == autocompletion_index
          IN  /\ autocompletion_index' # None
              /\ key'.kind = "ArrowDown" =>
                    autocompletion_index' =
                        IF i = None THEN Some(0)
                        ELSE IF i[1] = n - 1 THEN Some(0) ELSE Some(i[1] + 1)
              /\ key'.kind = "ArrowUp" =>
                    autocompletion_index' =
                        IF i = None THEN Some(n - 1)
                        ELSE IF i[1] = 0 THEN Some(n - 1) ELSE Some(i[1] - 1)
      ]_vars

C3_Witness ==
    /\ key.kind = "ArrowUp"
    /\ Len(Pinned) = 3
    /\ autocompletion_index = Some(Len(Pinned) - 1)
    /\ to_string(input) = Pinned[3]

\* C4: after any printable-character or Backspace event, in any multiline
\* mode, the pinned query is empty and the selection index is None.
C4_EditClearsCycling ==
    key.kind \in EditKeys =>
        /\ autocompletion_query = <<>>
        /\ autocompletion_index = None

\* C5: an Enter that requests submission on an empty buffer, with required set
\* and no default, returns Error("Input required") and leaves the buffer empty.
C5_RequiredError ==
    [][(/\ pc = "interacting"
        /\ key'.kind = "Enter"
        /\ multiline # "Editing"
        /\ is_empty(input)
        /\ input_required
        /\ default = None)
       => /\ state' = Error("Input required")
          /\ is_empty(input')
      ]_vars

C5_Witness ==
    /\ key.kind = "Enter"
    /\ state = Error("Input required")
    /\ is_empty(input)
    /\ autocomplete_on_enter

\* C6 as stated: an Enter that requests submission on an empty buffer with a
\* default set returns Submit carrying the default parsed into the target type.
C6_DefaultSubmits ==
    [][(/\ pc = "interacting"
        /\ key'.kind = "Enter"
        /\ multiline # "Editing"
        /\ is_empty(input)
        /\ default # None)
       => state' = Submit(parse(default[1]).value)
      ]_vars

\* The default is accepted by every configured validator and parses.
DefaultAccepted ==
    /\ validate_interactively # None =>
          validator(validate_interactively[1], default[1])
    /\ validate_on_enter # None => validator(validate_on_enter[1], default[1])
    /\ parse(default[1]).ok

\* C6 amended: an Enter that requests submission on an empty buffer with a
\* default set puts the default into the buffer; it returns Submit carrying
\* the default parsed into the target type when every configured validator
\* accepts the default and the default parses, and Error otherwise.
C6_DefaultSubmitsIfAccepted ==
    [][(/\ pc = "interacting"
        /\ key'.kind = "Enter"
        /\ multiline # "Editing"
        /\ is_empty(input)
        /\ default # None)
       => /\ to_string(input') = default[1]
          /\ DefaultAccepted => state' = Submit(parse(default[1]).value)
          /\ ~DefaultAccepted => state'.kind = "Error"
      ]_vars

C6_Witness ==
    /\ key.kind = "Enter"
    /\ autocomplete = None
    /\ default # None
    /\ input = [value |-> default[1], cursor |-> 0]
    /\ T = "char"
    /\ state = Submit(parse(default[1]).value)

\* C7: with an interactive validator, every printable-character or Backspace
\* keystroke that leaves a buffer the validator rejects returns Error with the
\* validator's message.
C7_InteractiveError ==
    (/\ key.kind \in EditKeys
     /\ validate_interactively # None
     /\ ~validator(validate_interactively[1], to_string(input)))
    => state = Error(validate_interactively[1].msg)

C7_Witness ==
    /\ key = KeyChar(" ")
    /\ to_string(input) = <<"r", " ">>
    /\ state = Error("no spaces")
    /\ pc = "interacting"

\* C8: Escape in Editing mode sets the mode to Preview, returns Cancel, and
\* leaves the buffer, the pinned query and the selection index unchanged.
C8_EscapeToPreview ==
    [][(/\ pc = "interacting"
        /\ key'.kind = "Escape"
        /\ multiline = "Editing")
       => /\ multiline' = "Preview"
          /\ state' = Cancel
          /\ input' = input
          /\ autocompletion_query' = autocompletion_query
          /\ autocompletion_index' = autocompletion_index
      ]_vars

C8_Witness ==
    /\ key.kind = "Escape"
    /\ multiline = "Preview"
    /\ state = Cancel
    /\ autocompletion_index # None
    /\ ~is_empty(input)

\* C9: a printable character in Preview mode is inserted into the buffer
\* exactly once, at the cursor, and the mode is Editing afterwards.
C9_PreviewCharOnce ==
    [][(/\ pc = "interacting"
        /\ key'.kind = "Char"
        /\ multiline = "Preview")
       => /\ Len(input'.value) = Len(input.value) + 1
          /\ input'.value = SubSeq(input.value, 1, input.cursor) \o <<key'.ch>>
                            \o SubSeq(input.value, input.cursor + 1,
                                      Len(input.value))
          /\ multiline' = "Editing"
      ]_vars

C9_Witness ==
    /\ key.kind = "Char"
    /\ multiline = "Editing"
    /\ autocompletion_index # None
    /\ Len(input.value) = 2

\* C10: with a suggestion list, every Tab, ArrowDown or ArrowUp returns Active,
\* invokes no validator and no parse, neither submits nor substitutes the
\* default, and leaves the multiline mode unchanged.
C10_CyclingShortCircuits ==
    [][(/\ pc = "interacting"
        /\ key'.kind \in CyclingKeys
        /\ autocomplete # None)
       => /\ state' = Active
          /\ checks' = <<>>
          /\ pc' = "interacting"
          /\ multiline' = multiline
          /\ \/ input' = input
             \/ \E i \in 1..Len(Candidates) : to_string(input') = Candidates[i]
      ]_vars

C10_Witness ==
    /\ key.kind = "ArrowDown"
    /\ multiline = "Preview"
    /\ autocompletion_index # None
    /\ validate_interactively # None
    /\ ~validator(validate_interactively[1], to_string(input))
    /\ state = Active

\* C11 as stated: a Tab, ArrowDown or ArrowUp pressed while the filtered list
\* (for the pinned query, or the live buffer) is empty changes neither the
\* buffer, the cursor, the pinned query, the selection index nor the multiline
\* mode, and returns Active.
C11_EmptyListAbsorbs ==
    [][(/\ pc = "interacting"
        /\ key'.kind \in CyclingKeys
        /\ Candidates = <<>>)
       => /\ input' = input
          /\ autocompletion_query' = autocompletion_query
          /\ autocompletion_index' = autocompletion_index
          /\ multiline' = multiline
          /\ state' = Active
      ]_vars

\* C11 amended: with a suggestion list configured, a Tab, ArrowDown or ArrowUp
\* pressed while the filtered list is empty changes neither the buffer, the
\* cursor, the pinned query, the selection index nor the multiline mode, and
\* returns Active.
C11_EmptyListAbsorbsIfConfigured ==
    [][(/\ pc = "interacting"
        /\ key'.kind \in CyclingKeys
        /\ autocomplete # None
        /\ Candidates = <<>>)
       => /\ input' = input
          /\ autocompletion_query' = autocompletion_query
          /\ autocompletion_index' = autocompletion_index
          /\ multiline' = multiline
          /\ state' = Active
      ]_vars

C11_Witness ==
    /\ key.kind = "Tab"
    /\ autocomplete # None
    /\ Candidates = <<>>
    /\ to_string(input) = <<" ", " ">>
    /\ validate_interactively # None
    /\ autocompletion_query = <<>>
    /\ autocompletion_index = None
    /\ state = Active

\* The suggestion block that lists `list` with no candidate selected.
Unhighlighted(list) ==
    [i \in 1..Len(list) |-> [choice |-> list[i], selected |-> FALSE]]

\* C12: a Tab that wraps the selection index from the last candidate to None
\* leaves the buffer unchanged (the last selected candidate) and keeps the
\* pinned query; the frame drawn afterwards lists the candidates for the
\* pinned query with none of them selected.
C12_TabWrapKeepsBuffer ==
    /\ [][(/\ pc = "interacting"
           /\ frame' = NoFrame
           /\ key'.kind = "Tab"
           /\ autocomplete # None
           /\ Candidates # <<>>
           /\ autocompletion_index = Some(Len(Candidates) - 1))
          => /\ autocompletion_index' = None
             /\ input' = input
             /\ to_string(input) = Candidates[Len(Candidates)]
             /\ autocompletion_query' = autocompletion_query
             /\ autocompletion_query' # <<>>
         ]_vars
    /\ [](( /\ key.kind = "Tab"
            /\ autocompletion_index = None
            /\ autocompletion_query # <<>>
            /\ frame # NoFrame)
          => /\ Pinned # <<>>
             /\ frame.suggestions = Unhighlighted(Pinned))

C12_Witness ==
    /\ key.kind = "Tab"
    /\ autocompletion_index = None
    /\ autocompletion_query = <<"r">>
    /\ to_string(input) = <<" ", "R">>
    /\ frame # NoFrame
    /\ Len(frame.suggestions) = 3

\* The State a submission of `text` ends in: the first failing check among
\* interactive validator, interactive parse, on-submit validator and parse.
SubmitVerdict(text) ==
    IF validate_interactively # None
       /\ ~validator(validate_interactively[1], text)
    THEN Error(validate_interactively[1].msg)
    ELSE IF validate_interactively # None /\ ~parse(text).ok
    THEN Error("Invalid value format")
    ELSE IF validate_on_enter # None /\ ~validator(validate_on_enter[1], text)
    THEN Error(validate_on_enter[1].msg)
    ELSE IF parse(text).ok THEN Submit(parse(text).value)
    ELSE Error("Invalid value format")

\* C13: on an Enter that requests submission with autocomplete-on-enter
\* enabled, if nothing is selected and the list for the buffer contents is
\* non-empty, the buffer becomes its first candidate and that candidate is
\* what is validated and submitted; if a candidate is selected or the list is
\* empty, the buffer is not replaced by a candidate (an empty buffer still
\* takes the default, or fails the required check).
C13_EnterSelectsFirst ==
    [][(/\ pc = "interacting"
        /\ key'.kind = "Enter"
        /\ multiline # "Editing"
        /\ autocomplete_on_enter)
       => LET list == get_filtered_suggestions(to_string(input))
              kept == IF is_empty(input) /\ default # None
                      THEN default[1] ELSE to_string(input)
          IN  IF autocompletion_index = None /\ list # <<>>
              THEN /\ to_string(input') = list[1]
                   /\ state' = SubmitVerdict(list[1])
              ELSE /\ to_string(input') = kept
                   /\ state' = IF is_empty(input) /\ default = None
                                  /\ input_required
                               THEN Error("Input required")
                               ELSE SubmitVerdict(kept)
      ]_vars

C13_Witness ==
    /\ key.kind = "Enter"
    /\ autocomplete_on_enter
    /\ autocompletion_index = None
    /\ autocompletion_query = <<>>
    /\ input = [value |-> <<"r", " ">>, cursor |-> 0]
    /\ state = Submit(<<"r", " ">>)

\* Two characters that differ at most in case.
SameLetter(x, y) == x = y \/ {x, y} = {"r", "R"}

\* `query` occurs in `choice` at some offset, letter for letter up to case.
Matches(choice, query) ==
    \E offset \in 0..Len(choice) :
        /\ offset + Len(query) <= Len(choice)
        /\ \A i \in 1..Len(query) : SameLetter(choice[offset + i], query[i])

\* The candidates of `list` that match `query`, walked front to back.
RECURSIVE Reference(_, _)
Reference(query, list) ==
    IF list = <<>> THEN <<>>
    ELSE (IF Matches(Head(list), query) THEN <<Head(list)>> ELSE <<>>)
         \o Reference(query, Tail(list))

\* C14: for every query and every static candidate list, the suggestion list
\* is empty for the empty query and otherwise exactly the candidates that
\* contain the query up to case, in their original order.
C14_FilterIsReference ==
    (lookup.called /\ handler = None /\ autocomplete # None)
    => lookup.result = IF lookup.query = <<>> THEN <<>>
                       ELSE Reference(lookup.query, autocomplete[1])

C14_Witness ==
    /\ lookup.called
    /\ handler = None
    /\ autocomplete = Some(<< <<"r", "R">>, <<"r", "R">> >>)
    /\ lookup.query = <<"R", "r">>
    /\ lookup.result = << <<"r", "R">>, <<"r", "R">> >>

\* C15: with a dynamic callback as the suggestion source, the suggestions
\* obtained for a query are what the callback returns for that query.
C15_HandlerCalledWithQuery ==
    (lookup.called /\ handler # None)
    => lookup.result = handler_call(handler[1], lookup.query)

\* C16: whenever multiline editing was requested and a default value exists,
\* the interaction starts in Preview mode, with or without a placeholder.
C16_DefaultStartsInPreview ==
    (/\ pc = "interacting"
     /\ key = NoKey
     /\ multiline # "Disabled"
     /\ default # None)
    => multiline = "Preview"

C18_SuggestionBlock ==
    frame # NoFrame =>
        /\ frame.suggestions # <<>> <=>
              (state.kind = "Active" /\ Candidates # <<>>)
        /\ frame.suggestions # <<>> =>
              /\ Len(frame.suggestions) = Len(Candidates)
              /\ \A i \in 1..Len(Candidates) :
                    /\ frame.suggestions[i].choice = Candidates[i]
                    /\ frame.suggestions[i].selected <=>
                          autocompletion_index = Some(i - 1)
              /\ Cardinality({i \in 1..Len(frame.suggestions) :
                                 frame.suggestions[i].selected}) <= 1
              /\ autocompletion_index = None =>
                    \A i \in 1..Len(frame.suggestions) :
                        ~frame.suggestions[i].selected

C18_Witness ==
    /\ frame # NoFrame
    /\ Len(frame.suggestions) = 3
    /\ frame.suggestions[2].selected
    /\ ~frame.suggestions[1].selected
    /\ to_string(input) = frame.suggestions[2].choice

\* A frame drawn for a State other than Active while candidates exist.
C18_WitnessHidden ==
    /\ frame # NoFrame
    /\ state.kind = "Error"
    /\ Candidates # <<>>
    /\ frame.suggestions = <<>>

\* The checks a submission runs through with this configuration, in the
\* order of the claim, after the required-field check.
CheckOrder ==
    (IF validate_interactively # None
     THEN <<"interactive", "interactive_parse">> ELSE <<>>)
    \o (IF validate_on_enter # None THEN <<"on_enter">> ELSE <<>>)
    \o <<"parse">>

CheckPasses(c, text) ==
    CASE c = "interactive" -> validator(validate_interactively[1], text)
      [] c = "on_enter" -> validator(validate_on_enter[1], text)
      [] OTHER -> parse(text).ok

CheckError(c) ==
    CASE c = "interactive" -> validate_interactively[1].msg
      [] c = "on_enter" -> validate_on_enter[1].msg
      [] OTHER -> "Invalid value format"

\* C19: on an Enter that requests submission the checks run in the order
\* required-field check, interactive validator, interactive parse check,
\* on-submit validator, final parse, and the Error returned is that of the
\* first failing check: the checks invoked are exactly those up to and
\* including the first failing one.  When both validators reject the buffer
\* the message is the interactive validator's and the on-submit validator is
\* not invoked; when the required-field check fails no validator is invoked.
C19_CheckOrder ==
    [][(/\ pc = "interacting"
        /\ frame' = NoFrame
        /\ key'.kind = "Enter"
        /\ multiline # "Editing")
       => LET text == to_string(input')
              failing == {i \in 1..Len(CheckOrder) :
                             ~CheckPasses(CheckOrder[i], text)}
          IN  /\ IF is_empty(input') /\ default = None /\ input_required
                 THEN /\ state' = Error("Input required")
                      /\ checks' = <<>>
                 ELSE IF failing = {}
                 THEN /\ checks' = CheckOrder
                      /\ state' = Submit(parse(text).value)
                 ELSE \E f \in failing :
                      /\ \A g \in failing : f <= g
                      /\ checks' = SubSeq(CheckOrder, 1, f)
                      /\ state' = Error(CheckError(CheckOrder[f]))
              /\ (/\ validate_interactively # None
                  /\ validate_on_enter # None
                  /\ ~validator(validate_interactively[1], text)
                  /\ ~validator(validate_on_enter[1], text))
                 => /\ state' = Error(validate_interactively[1].msg)
                    /\ \A i \in 1..Len(checks') : checks'[i] # "on_enter"
      ]_vars

C19_Witness ==
    /\ key.kind = "Enter"
    /\ multiline = "Disabled"
    /\ validate_interactively # None
    /\ validate_on_enter # None
    /\ ~validator(validate_interactively[1], to_string(input))
    /\ ~validator(validate_on_enter[1], to_string(input))
    /\ state = Error("no spaces")
    /\ checks = <<"interactive">>

\* An Enter whose required-field check failed.
C19_WitnessRequired ==
    /\ key.kind = "Enter"
    /\ state = Error("Input required")
    /\ validate_interactively # None
    /\ checks = <<>>

\* C20: on() returns Submit only for an Enter received while the mode is not
\* Editing, and Cancel only for an Escape received while the mode is Editing;
\* an Enter received in Editing mode inserts a newline at the cursor and does
\* not return Submit; an Enter received in any other mode returns Submit or
\* Error, never Active.
C20_SubmitAndCancel ==
    [][(pc = "interacting" /\ frame' = NoFrame)
       => /\ state'.kind = "Submit"
                => key'.kind = "Enter" /\ multiline # "Editing"
          /\ state'.kind = "Cancel"
                => key'.kind = "Escape" /\ multiline = "Editing"
          /\ (key'.kind = "Enter" /\ multiline = "Editing")
                => /\ state'.kind # "Submit"
                   /\ Len(input'.value) = Len(input.value) + 1
                   /\ input'.value[input.cursor + 1] = Newline
                   /\ \A i \in 1..Len(input.value) :
                         input'.value[IF i <= input.cursor THEN i ELSE i + 1]
                            = input.value[i]
          /\ (key'.kind = "Enter" /\ multiline # "Editing")
                => state'.kind \in {"Submit", "Error"}
      ]_vars

C20_Witness ==
    /\ key.kind = "Enter"
    /\ state.kind = "Active"
    /\ multiline = "Editing"
    /\ \E i \in 1..Len(input.value) : input.value[i] = Newline

\* A Cancel returned for Escape.
C20_WitnessCancel ==
    /\ key.kind = "Escape"
    /\ state = Cancel
    /\ multiline = "Preview"

====
